---- MODULE Spec2Model ----
(***************************************************************************)
(* Model of puzzle.py: a backtracking solver that lays triangular tiles    *)
(* into a star-shaped board.  Faces, tiles, the validators, the board      *)
(* geometry (init_solution, adj_spaces) and the generator solve are        *)
(* translated from the source.  The run statistics (num_try, num_fail,     *)
(* the timers) and the printing helpers are left out: they never feed      *)
(* back into the search.                                                   *)
(***************************************************************************)
EXTENDS Integers, Sequences, FiniteSets, TLC

VARIABLES
  boardCodes,  \* contents of board.yaml: a sequence of face codes
  tileCodes,   \* contents of tiles.yaml: a sequence of sequences of face codes
  pc,          \* position of the script / of the function under test
  err,         \* the RuntimeError (or Python exception) raised, if any
  board,       \* tuple of Face built by load_board
  tiles,       \* the Tile objects built by load_tiles: index -> current edges
  solution,    \* the grid built by init_solution and mutated by solve
  stack,       \* the suspended frames of the recursive generator solve
  yielded,     \* the boards solve has yielded, each as it stood when yielded
  arg,         \* input of a pure function under test
  res          \* its result

vars == << boardCodes, tileCodes, pc, err, board, tiles, solution, stack,
           yielded, arg, res >>

----------------------------------------------------------------------------
(* Bounds of the checked instances *)

MaxLen == 19
MaxTiles == 55
MaxVariant == 2
MaxCut == 1
MaxVaried == 1
MaxRot == 4
MaxCalls == 2

----------------------------------------------------------------------------
(* Faces and sides *)

Digits == << "1", "2", "3", "4", "5", "6", "7", "8", "9" >>

\* a face code is a string; it is modelled as its sequence of characters
Code(d, s) == << Digits[d], s >>

\* str.lower() on one character of a face code
lower(ch) == IF ch = "L" THEN "l" ELSE IF ch = "U" THEN "u" ELSE ch

\* int( code[ 0 ] )
int(ch) == CHOOSE d \in 1..9 : Digits[d] = ch

\* Face.__init__
Face(code) == [ figure |-> int(code[1]), side |-> lower(code[2]) ]

\* Python's None where a Face is expected
NoFace == [ figure |-> 0, side |-> "none" ]

\* Face.fits without the comparison of the sides
fits_figure_only(self, other) == self.figure = other.figure

\* Face.fits
fits(self, other) == self.figure = other.figure /\ self.side # other.side

----------------------------------------------------------------------------
(* Tiles *)

Edge == << "b", "r", "l" >>

\* Tile.__init__
Tile(base, right, left) == [ b |-> base, r |-> right, l |-> left ]

\* Tile.rotate that exchanges Base and Right and leaves Left
rotate_exchange(self, rot) ==
  LET r == rot % 3 IN
  IF r = 1 THEN [ b |-> self.r, r |-> self.b, l |-> self.l ]
  ELSE IF r = 2 THEN [ b |-> self.r, r |-> self.l, l |-> self.b ]
  ELSE self

\* Tile.rotate with the assignment of r == 1 in the branch of r == 2 as well
rotate_two_as_one(self, rot) ==
  LET r == rot % 3 IN
  IF r = 1 THEN [ b |-> self.l, r |-> self.b, l |-> self.r ]
  ELSE IF r = 2 THEN [ b |-> self.l, r |-> self.b, l |-> self.r ]
  ELSE self

\* Tile.rotate, as the new value of self._edges
rotate(self, rot) ==
  LET r == rot % 3 IN
  IF r = 1 THEN [ b |-> self.l, r |-> self.b, l |-> self.r ]
  ELSE IF r = 2 THEN [ b |-> self.r, r |-> self.l, l |-> self.b ]
  ELSE self

----------------------------------------------------------------------------
(* Validation of the loaded data *)

NoError == [ kind |-> "none", figure |-> 0, x |-> 0, y |-> 0 ]
Error(k) == [ kind |-> k, figure |-> 0, x |-> 0, y |-> 0 ]

\* face_re.match: ^[1-6][lu]$ with IGNORECASE ($ also matches before a final newline)
check_face(face) ==
  /\ Len(face) \in {2, 3}
  /\ face[1] \in { Digits[d] : d \in 1..6 }
  /\ face[2] \in { "l", "u", "L", "U" }
  /\ Len(face) = 3 => face[3] = "\n"

\* check_tile: the error it raises, NoError when it returns
check_tile(tile) ==
  IF Len(tile) # 3 THEN Error("MalformedTile")
  ELSE IF \E i \in 1..3 : ~check_face(tile[i]) THEN Error("MalformedFace")
  ELSE NoError

\* check_board with the row-count formula 4s+2 in place of the multiple of 6
check_board_4s2(b) ==
  IF (Len(b) - 2) % 4 # 0 THEN Error("MalformedBoard")
  ELSE IF \E i \in 1..Len(b) : ~check_face(b[i]) THEN Error("MalformedFace")
  ELSE NoError

\* check_board: the error it raises, NoError when it returns
check_board(b) ==
  IF Len(b) % 6 # 0 THEN Error("MalformedBoard")
  ELSE IF \E i \in 1..Len(b) : ~check_face(b[i]) THEN Error("MalformedFace")
  ELSE NoError

\* side( board ) = ( len( board ) - 2 ) // 4, floor division
side(b) == (Len(b) - 2) \div 4

\* spaces( s )
spaces(s) == 6 * s * s

\* the faces() generator of check_game: the boundary, then every tile's three edges
\* faces() that takes the Base and Right face of each tile and not the Left
game_faces_without_left(b, ts) ==
  [ i \in 1..(Len(b) + 2 * Len(ts)) |->
      IF i <= Len(b) THEN b[i]
      ELSE LET j == i - Len(b) - 1
               t == ts[(j \div 2) + 1]
           IN  IF j % 2 = 0 THEN t.b ELSE t.r ]

game_faces(b, ts) ==
  [ i \in 1..(Len(b) + 3 * Len(ts)) |->
      IF i <= Len(b) THEN b[i]
      ELSE LET j == i - Len(b) - 1
               t == ts[(j \div 3) + 1]
               e == Edge[(j % 3) + 1]
           IN  IF e = "b" THEN t.b ELSE IF e = "r" THEN t.r ELSE t.l ]

\* counts[ figure ][ 0 ] and counts[ figure ][ 1 ] after the counting loop
count_lower(fs, figure) ==
  Cardinality({ i \in 1..Len(fs) : fs[i].figure = figure /\ fs[i].side = "l" })
count_upper(fs, figure) ==
  Cardinality({ i \in 1..Len(fs) : fs[i].figure = figure /\ fs[i].side # "l" })

\* check_game with the parity loop moved before the count test
check_game_parity_first(b, ts) ==
  LET fs == game_faces(b, ts)
      bad == { f \in 1..6 : count_lower(fs, f) # count_upper(fs, f) }
  IN  IF bad # {}
      THEN LET f == CHOOSE g \in bad : \A h \in bad : g <= h
           IN  [ kind |-> "ParityMismatch", figure |-> f,
                 x |-> count_lower(fs, f), y |-> count_upper(fs, f) ]
      ELSE IF Len(ts) # spaces(side(b))
      THEN [ kind |-> "CountMismatch", figure |-> 0, x |-> Len(ts), y |-> spaces(side(b)) ]
      ELSE NoError

\* check_game: the error it raises, NoError when it returns
check_game(b, ts) ==
  IF Len(ts) # spaces(side(b))
  THEN [ kind |-> "CountMismatch", figure |-> 0, x |-> Len(ts), y |-> spaces(side(b)) ]
  ELSE LET fs == game_faces(b, ts)
           bad == { f \in 1..6 : count_lower(fs, f) # count_upper(fs, f) }
       IN  IF bad = {} THEN NoError
           ELSE LET f == CHOOSE g \in bad : \A h \in bad : g <= h
                IN  [ kind |-> "ParityMismatch", figure |-> f,
                      x |-> count_lower(fs, f), y |-> count_upper(fs, f) ]

\* load_tiles: the first error of the check_tile loop
load_tiles_error(tcs) ==
  IF \E i \in 1..Len(tcs) : check_tile(tcs[i]) # NoError
  THEN check_tile(tcs[CHOOSE i \in 1..Len(tcs) :
                        /\ check_tile(tcs[i]) # NoError
                        /\ \A j \in 1..(i - 1) : check_tile(tcs[j]) = NoError])
  ELSE NoError

\* load_tiles: the tuple of Tile objects
load_tiles(tcs) ==
  [ i \in 1..Len(tcs) |-> Tile(Face(tcs[i][1]), Face(tcs[i][2]), Face(tcs[i][3])) ]

\* load_board: the tuple of Face objects
load_board(bcs) == [ i \in 1..Len(bcs) |-> Face(bcs[i]) ]

----------------------------------------------------------------------------
(* Board geometry *)

\* range( start, stop, step ) as a sequence
range(start, stop, step) ==
  LET n == IF step > 0
           THEN (IF stop > start THEN (stop - start + step - 1) \div step ELSE 0)
           ELSE (IF start > stop THEN (start - stop - step - 1) \div (0 - step) ELSE 0)
  IN  [ i \in 1..n |-> start + (i - 1) * step ]

\* reversed( seq )
reversed(s) == [ i \in 1..Len(s) |-> s[Len(s) + 1 - i] ]

\* a sequence index as Python resolves it: 0 when it raises IndexError,
\* otherwise the 1-based position (negative indices count from the end)
index(n, i) ==
  IF 0 <= i /\ i < n THEN i + 1
  ELSE IF i < 0 /\ 0 - n <= i THEN n + i + 1
  ELSE 0

\* the contents of a slot: None, a frame Tile built by init_solution, or a
\* reference to one of the Tile objects of tiles (by its position there)
Empty == [ kind |-> "none", id |-> 0, edges |-> Tile(NoFace, NoFace, NoFace) ]
FrameSlot(t) == [ kind |-> "frame", id |-> 0, edges |-> t ]
TileRef(k) == [ kind |-> "tile", id |-> k, edges |-> Tile(NoFace, NoFace, NoFace) ]

\* lengths with the pair written ( l + 1, l + 2 )
lengths_swapped(s) ==
  [ i \in 1..(IF s > 0 THEN 1 + 2 * s ELSE 1) |->
      IF i = 1 THEN s
      ELSE LET l == s + ((i - 2) \div 2)
           IN  IF (i - 2) % 2 = 0 THEN l + 1 ELSE l + 2 ]

\* the tuple lengths of init_solution
lengths(s) ==
  [ i \in 1..(IF s > 0 THEN 1 + 2 * s ELSE 1) |->
      IF i = 1 THEN s
      ELSE LET l == s + ((i - 2) \div 2)
           IN  IF (i - 2) % 2 = 0 THEN l + 2 ELSE l + 1 ]

\* row_lengths with a waist row of its own between the two halves
row_lengths_waist(s) == lengths(s) \o << 2 * s + 2 >> \o reversed(lengths(s))

\* chain( lengths, reversed( lengths ) )
row_lengths(s) == lengths(s) \o reversed(lengths(s))

\* the order in which init_solution hands the boundary faces to the frame:
\* one << row, col, edge >> per next( faces ), rows and columns as Python
\* indices (-1 is the last element)
frame_order(s) ==
  LET rl == row_lengths(s)
      n == Len(rl)
      top == [ c \in 1..rl[1] |-> << 0, c - 1, "b" >> ]
      ur == [ k \in 1..Len(range(1, 2 * s, 2)) |->
                << range(1, 2 * s, 2)[k], -1, "l" >> ]
      lr == [ k \in 1..Len(range(2 * s + 2, 4 * s + 1, 2)) |->
                << range(2 * s + 2, 4 * s + 1, 2)[k], -1, "r" >> ]
      bottom == [ c \in 1..rl[n] |-> << -1, rl[n] - c, "b" >> ]
      ll == [ k \in 1..Len(range(4 * s, 2 * s + 1, -2)) |->
                << range(4 * s, 2 * s + 1, -2)[k], 0, "l" >> ]
      ul == [ k \in 1..Len(range(2 * s - 1, 0, -2)) |->
                << range(2 * s - 1, 0, -2)[k], 0, "r" >> ]
  IN  top \o ur \o lr \o bottom \o ll \o ul

\* frame_tile with the Right and Left arguments of Tile exchanged
frame_tile_mirrored(f, e) ==
  Tile(IF e = "b" THEN f ELSE NoFace,
       IF e = "l" THEN f ELSE NoFace,
       IF e = "r" THEN f ELSE NoFace)

\* Tile( f, None, None ), Tile( None, f, None ) or Tile( None, None, f )
frame_tile(f, e) ==
  Tile(IF e = "b" THEN f ELSE NoFace,
       IF e = "r" THEN f ELSE NoFace,
       IF e = "l" THEN f ELSE NoFace)

\* init_solution: the assignments are applied in order, a later one
\* overwriting an earlier one to the same slot
init_solution(b) ==
  LET s == Len(b) \div 6
      rl == row_lengths(s)
      fo == frame_order(s)
      last(r, c) ==
        IF \E k \in 1..Len(fo) : /\ index(Len(rl), fo[k][1]) = r
                                 /\ index(rl[r], fo[k][2]) = c
        THEN CHOOSE k \in 1..Len(fo) :
               /\ index(Len(rl), fo[k][1]) = r
               /\ index(rl[r], fo[k][2]) = c
               /\ \A j \in (k + 1)..Len(fo) :
                    ~(index(Len(rl), fo[j][1]) = r /\ index(rl[r], fo[j][2]) = c)
        ELSE 0
  IN  [ r \in 1..Len(rl) |->
        [ c \in 1..rl[r] |->
            IF last(r, c) = 0 THEN Empty
            ELSE FrameSlot(frame_tile(b[last(r, c)], fo[last(r, c)][3])) ] ]

\* adj_spaces with the offsets of the upper half used on every row
adj_spaces_upper_half(s, row, col) ==
  LET base_off == IF row % 2 = 1 THEN -1 ELSE 1
  IN  << << row + base_off, col + base_off, "b" >>,
         << row - base_off, col, "r" >>,
         << row - base_off, col + base_off, "l" >> >>

\* adj_spaces with the Base column of the lower half starting at row center + 1
adj_spaces_base_waist(s, row, col) ==
  LET base_off == IF row % 2 = 1 THEN -1 ELSE 1
      center == 2 * s
  IN  << << row + base_off,
            IF row < center THEN col + base_off
            ELSE IF row > center THEN col - base_off ELSE col,
            "b" >>,
         << row - base_off, IF row <= center THEN col ELSE col - base_off, "r" >>,
         << row - base_off, IF row <= center THEN col + base_off ELSE col, "l" >> >>

\* adj_spaces with row < center in the Right neighbour
adj_spaces_right_strict(s, row, col) ==
  LET base_off == IF row % 2 = 1 THEN -1 ELSE 1
      center == 2 * s
  IN  << << row + base_off,
            IF row < center THEN col + base_off
            ELSE IF row > center + 1 THEN col - base_off ELSE col,
            "b" >>,
         << row - base_off, IF row < center THEN col ELSE col - base_off, "r" >>,
         << row - base_off, IF row <= center THEN col + base_off ELSE col, "l" >> >>

\* adj_spaces: the three << row, col, edge >> it yields
adj_spaces(s, row, col) ==
  LET base_off == IF row % 2 = 1 THEN -1 ELSE 1
      center == 2 * s
  IN  << << row + base_off,
            IF row < center THEN col + base_off
            ELSE IF row > center + 1 THEN col - base_off ELSE col,
            "b" >>,
         << row - base_off, IF row <= center THEN col ELSE col - base_off, "r" >>,
         << row - base_off, IF row <= center THEN col + base_off ELSE col, "l" >> >>

\* tile[ edge ] on a Tile's edges
edge_of(t, e) == IF e = "b" THEN t.b ELSE IF e = "r" THEN t.r ELSE t.l

----------------------------------------------------------------------------
(* The script up to check_game (lines 218 to 221) on families of           *)
(* boundaries and tile lists of every length up to MaxLen and MaxTiles;    *)
(* an error of load_tiles, load_board or check_game ends the run           *)

\* the first n elements of the endless repetition of p
cyclic(p, n) == [ i \in 1..n |-> p[((i - 1) % Len(p)) + 1] ]

BoardPatterns ==
  { << <<"1","u">>, <<"1","u">>, <<"2","l">>, <<"2","u">>, <<"3","l">>, <<"3","u">> >>,
    << <<"1","u">>, <<"1","l">>, <<"2","U">>, <<"2","L">>, <<"3","u">>, <<"3","l">> >>,
    << <<"1","u">>, <<"2","u">>, <<"3","u">>, <<"4","u">>, <<"5","u">>, <<"6","u">>,
       <<"1","l">>, <<"2","l">>, <<"3","l">>, <<"4","l">>, <<"5","l">>, <<"6","l">> >>,
    << <<"1","u">>, <<"1","l">>, <<"7","u">>, <<"2","l">>, <<"3","x">>, <<"3","l">> >> }

TilePatterns ==
  { << << <<"1","u">>, <<"2","u">>, <<"3","u">> >>,
       << <<"1","l">>, <<"2","l">>, <<"3","l">> >> >>,
    << << <<"4","u">>, <<"4","l">>, <<"5","U">> >> >>,
    << << <<"6","u">>, <<"6","l">>, <<"1","u">> >>,
       << <<"6","l">>, <<"1","l">>, <<"6","u">> >>,
       << <<"2","l">>, <<"2","u">> >> >> }

GeomInit ==
  /\ \E n \in 0..MaxLen : \E p \in BoardPatterns : boardCodes = cyclic(p, n)
  /\ \E n \in 0..MaxTiles : \E p \in TilePatterns : tileCodes = cyclic(p, n)
  /\ pc = "load_tiles"
  /\ err = NoError
  /\ board = << >>
  /\ tiles = << >>
  /\ solution = << >>
  /\ stack = << >>
  /\ yielded = << >>
  /\ arg = << >>
  /\ res = NoError

\* tiles = load_tiles( 'tiles.yaml' )
LoadTiles ==
  /\ pc = "load_tiles"
  /\ IF load_tiles_error(tileCodes) # NoError
     THEN /\ err' = load_tiles_error(tileCodes)
          /\ pc' = "rejected"
          /\ UNCHANGED tiles
     ELSE /\ tiles' = load_tiles(tileCodes)
          /\ pc' = "load_board"
          /\ UNCHANGED err
  /\ UNCHANGED << boardCodes, tileCodes, board, solution, stack, yielded, arg, res >>

\* board = load_board( 'board.yaml' )
LoadBoard ==
  /\ pc = "load_board"
  /\ IF check_board(boardCodes) # NoError
     THEN /\ err' = check_board(boardCodes)
          /\ pc' = "rejected"
          /\ UNCHANGED board
     ELSE /\ board' = load_board(boardCodes)
          /\ pc' = "check_game"
          /\ UNCHANGED err
  /\ UNCHANGED << boardCodes, tileCodes, tiles, solution, stack, yielded, arg, res >>

\* check_game( board, tiles ), line 221: an error ends the script
CheckGame ==
  /\ pc = "check_game"
  /\ IF check_game(board, tiles) # NoError
     THEN /\ err' = check_game(board, tiles)
          /\ pc' = "rejected"
     ELSE /\ pc' = "init"
          /\ UNCHANGED err
  /\ UNCHANGED << boardCodes, tileCodes, board, tiles, solution, stack, yielded, arg, res >>

\* the script up to line 221: load, load, validate
GeomNext == LoadTiles \/ LoadBoard \/ CheckGame

SpecGeom == GeomInit /\ [][GeomNext]_vars

----------------------------------------------------------------------------
(* init_solution and adj_spaces called as functions: init_solution on the  *)
(* tuples of Face load_board returns, for every accepted length up to      *)
(* MaxLen, then adj_spaces on an empty slot of the grid, with the order    *)
(* try_tile passes                                                         *)

\* the slots of a grid, as << row, col >> positions counted from 1
Slots(g) == UNION { { << r, c >> : c \in 1..Len(g[r]) } : r \in 1..Len(g) }
EmptySlots(g) == { rc \in Slots(g) : g[rc[1]][rc[2]].kind = "none" }
FrameSlots(g) == { rc \in Slots(g) : g[rc[1]][rc[2]].kind = "frame" }

\* the first n elements of the repetition of p that starts at its element o + 1
shifted(p, o, n) == [ i \in 1..n |-> p[((o + i - 1) % Len(p)) + 1] ]

BoundaryFamily ==
  { c \in { shifted(p, o, n) : p \in BoardPatterns, o \in 0..11, n \in 0..MaxLen } :
      check_board(c) = NoError }

BoardInit ==
  /\ boardCodes \in BoundaryFamily
  /\ board = load_board(boardCodes)
  /\ pc = "g_init"
  /\ tileCodes = << >>
  /\ tiles = << >>
  /\ err = NoError
  /\ solution = << >>
  /\ stack = << >>
  /\ yielded = << >>
  /\ arg = << >>
  /\ res = << >>

\* init_solution( board )
GInitSolution ==
  /\ pc = "g_init"
  /\ solution' = init_solution(board)
  /\ pc' = "g_done"
  /\ UNCHANGED << boardCodes, tileCodes, err, board, tiles, stack, yielded, arg, res >>

\* adj_spaces( side( board ), row, col ) for an empty slot, as try_tile
\* calls it; arg keeps << row, col >>, res the three tuples it yields
AdjSpacesCall ==
  /\ pc = "g_done"
  /\ \E rc \in EmptySlots(solution) :
       /\ arg' = << rc[1] - 1, rc[2] - 1 >>
       /\ res' = adj_spaces(side(solution), rc[1] - 1, rc[2] - 1)
  /\ pc' = "g_adj"
  /\ UNCHANGED << boardCodes, tileCodes, err, board, tiles, solution, stack, yielded >>

BoardNext == GInitSolution \/ AdjSpacesCall

SpecBoard == BoardInit /\ [][BoardNext]_vars


\* the order init_solution builds a board for
Order == Len(board) \div 6


\* check_game has run: it returned, or it raised one of its two errors
Checked ==
  \/ pc = "init"
  \/ pc = "rejected" /\ err.kind \in { "CountMismatch", "ParityMismatch" }
\* load_board has returned a board
Loaded == pc = "check_game" \/ Checked
\* init_solution has returned a grid
Built == pc \in { "g_done", "g_adj" }
RowLengthsOf(g) == [ r \in 1..Len(g) |-> Len(g[r]) ]

\* the faces a frame slot holds
FacesOf(slot) == { f \in { slot.edges.b, slot.edges.r, slot.edges.l } : f # NoFace }
EdgesHeld(slot) == { e \in { "b", "r", "l" } : edge_of(slot.edges, e) # NoFace }

----------------------------------------------------------------------------
(* C5: for every boundary check_board accepts, of positive length, the     *)
(* count test of check_game passes exactly when the number of tiles equals *)
(* the number of empty slots of the board init_solution builds from it.    *)
(* The code takes the order from ( len - 2 ) // 4 of the boundary, which   *)
(* is not len // 6 from 18 faces on.                                       *)
CountCheckUsesInteriorCount ==
  (Checked /\ Len(board) > 0) =>
    ((err.kind # "CountMismatch") <=>
       (Len(tiles) = Cardinality(EmptySlots(init_solution(board)))))

----------------------------------------------------------------------------
ValidatorFixture ==
  /\ boardCodes = << <<"1","u">>, <<"1","u">>, <<"2","l">>, <<"2","u">>,
                     <<"3","l">>, <<"3","u">> >>
  /\ tileCodes = << >>

(* C6 as stated: for the boundary 1u,1u,2l,2u,3l,3u and no tiles,          *)
(* check_game reports the parity mismatch of figure 1.                     *)
FixtureReportsParity ==
  (ValidatorFixture /\ Checked) => (err.kind = "ParityMismatch" /\ err.figure = 1)

(* C6 amended: for that boundary and no tiles check_game reports the count *)
(* mismatch, 0 tiles for 6 spaces; figure 1 does have two upper and no     *)
(* lower faces, but the count test comes first.                            *)
FixtureReportsCount ==
  (ValidatorFixture /\ Checked) =>
    /\ pc = "rejected"
    /\ err = [ kind |-> "CountMismatch", figure |-> 0, x |-> 0, y |-> 6 ]
    /\ count_upper(game_faces(board, tiles), 1) = 2
    /\ count_lower(game_faces(board, tiles), 1) = 0

FixtureChecked == ValidatorFixture /\ pc = "rejected" /\ err.kind # "none"

----------------------------------------------------------------------------
\* the row lengths as the claim lists them: s, then the pairs
\* (s+2, s+1) ... (2s+1, 2s), then the same sequence backwards
ClaimedHalf(s) ==
  [ i \in 1..(2 * s + 1) |->
      IF i = 1 THEN s
      ELSE IF i % 2 = 0 THEN s + 1 + (i \div 2) ELSE s + ((i - 1) \div 2) ]
ClaimedRowLengths(s) ==
  [ i \in 1..(4 * s + 2) |->
      IF i <= 2 * s + 1 THEN ClaimedHalf(s)[i] ELSE ClaimedHalf(s)[4 * s + 3 - i] ]

(* C7: for every order s >= 1 the board of init_solution has 2+4s rows of  *)
(* the listed lengths, exactly 6*s*s empty slots, and every other slot is  *)
(* a frame slot.                                                           *)
BoardShape ==
  (Built /\ Order >= 1) =>
    /\ Len(solution) = 2 + 4 * Order
    /\ RowLengthsOf(solution) = ClaimedRowLengths(Order)
    /\ Cardinality(EmptySlots(solution)) = 6 * Order * Order
    /\ Cardinality(EmptySlots(solution)) = spaces(Order)
    /\ Slots(solution) = EmptySlots(solution) \cup FrameSlots(solution)

BoardShapeBuilt == pc = "g_done" /\ Order = 3 /\ Len(solution) = 14

----------------------------------------------------------------------------
(* C8 as stated: for order 1 the row lengths are 1,3,2,4,2,3,1.            *)
RowLengthsOrder1Claimed ==
  (Built /\ Order = 1) => RowLengthsOf(solution) = << 1, 3, 2, 4, 2, 3, 1 >>

(* C8 amended: for order 1 the row lengths are 1,3,2,2,3,1, six rows with  *)
(* no row of four at the waist.                                            *)
RowLengthsOrder1 ==
  (Built /\ Order = 1) => RowLengthsOf(solution) = << 1, 3, 2, 2, 3, 1 >>

Order1Built == pc = "g_done" /\ Order = 1 /\ Len(solution) = 6

----------------------------------------------------------------------------
(* C9 as stated: a boundary is accepted for order s only with 4s+2 faces.  *)
BoundaryLength4s2 ==
  (Loaded /\ Order >= 1) => Len(boardCodes) = 4 * Order + 2

(* C9 amended: a boundary is accepted only when it has exactly 6s faces,   *)
(* s being the order the board is built for; a length that is no multiple  *)
(* of 6 is rejected with an error and no board is built; an accepted       *)
(* boundary supplies exactly one face to each of the 6s frame slots.       *)
BoundaryLength6s ==
  /\ Loaded => (Len(boardCodes) = 6 * Order /\ Len(board) = Len(boardCodes))
  /\ (Len(boardCodes) % 6 # 0 /\ pc # "load_tiles" /\ pc # "load_board") =>
       /\ pc = "rejected"
       /\ solution = << >>
       /\ load_tiles_error(tileCodes) = NoError => err.kind = "MalformedBoard"
  /\ Loaded =>
       LET g == init_solution(board) IN
       /\ Cardinality(FrameSlots(g)) = Len(board)
       /\ \A rc \in FrameSlots(g) : Cardinality(EdgesHeld(g[rc[1]][rc[2]])) = 1
       /\ \A i \in 1..Len(board) :
            Cardinality({ rc \in FrameSlots(g) : board[i] \in FacesOf(g[rc[1]][rc[2]]) })
              = Cardinality({ j \in 1..Len(board) : board[j] = board[i] })

Order2Built ==
  /\ Loaded
  /\ Order = 2
  /\ Len(board) = 12
  /\ Cardinality(FrameSlots(init_solution(board))) = 12

----------------------------------------------------------------------------
(* Face.fits applied to every pair of well-formed face codes *)

FaceCodes == { Code(d, c) : d \in 1..6, c \in { "l", "u", "L", "U" } }

FitsInit ==
  /\ arg \in FaceCodes \X FaceCodes
  /\ res = [ ab |-> FALSE, ba |-> FALSE, aa |-> FALSE ]
  /\ pc = "f_call"
  /\ boardCodes = << >>
  /\ tileCodes = << >>
  /\ err = NoError
  /\ board = << >>
  /\ tiles = << >>
  /\ solution = << >>
  /\ stack = << >>
  /\ yielded = << >>

\* a.fits( b ), b.fits( a ) and a.fits( a ) for a = Face( arg[1] ), b = Face( arg[2] )
FitsCall ==
  /\ pc = "f_call"
  /\ res' = [ ab |-> fits(Face(arg[1]), Face(arg[2])),
              ba |-> fits(Face(arg[2]), Face(arg[1])),
              aa |-> fits(Face(arg[1]), Face(arg[1])) ]
  /\ pc' = "f_done"
  /\ UNCHANGED << boardCodes, tileCodes, err, board, tiles, solution, stack,
                  yielded, arg >>

FitsNext == FitsCall

SpecFits == FitsInit /\ [][FitsNext]_vars

\* the half of the picture a face code names
HalfOf(code) == IF code[2] \in { "u", "U" } THEN "upper" ELSE "lower"

(* C10: fits is symmetric and irreflexive over all faces, and holds        *)
(* exactly when the figures are equal and the sides differ.                *)
FitsSymmetricIrreflexive ==
  pc = "f_done" =>
    /\ res.ab = res.ba
    /\ ~res.aa
    /\ res.ab <=> (arg[1][1] = arg[2][1] /\ HalfOf(arg[1]) # HalfOf(arg[2]))

FitsHolds == pc = "f_done" /\ res.ab /\ arg = << <<"3","U">>, <<"3","l">> >>

----------------------------------------------------------------------------
(* The search *)

\* the edges a slot's Tile shows now: a placed Tile is the object of tiles
\* itself, so it shows whatever orientation that object has at the moment
slot_edges(slot, ts) == IF slot.kind = "tile" THEN ts[slot.id] ELSE slot.edges

\* try_edge that tests against placed tiles only and passes over the frame
try_edge_skip_frame(tile, g, ts, adj) ==
  LET r == index(Len(g), adj[1]) IN
  IF r = 0 THEN "IndexError"
  ELSE LET c == index(Len(g[r]), adj[2]) IN
       IF c = 0 THEN "IndexError"
       ELSE IF g[r][c].kind # "tile" THEN "True"
       ELSE LET f == edge_of(slot_edges(g[r][c], ts), adj[3]) IN
            IF f = NoFace THEN "AttributeError"
            ELSE IF fits(edge_of(tile, adj[3]), f) THEN "True" ELSE "False"

\* one turn of the loop of try_tile: "True" to go on, "False" for return
\* False, or the exception the turn raises
try_edge(tile, g, ts, adj) ==
  LET r == index(Len(g), adj[1]) IN
  IF r = 0 THEN "IndexError"
  ELSE LET c == index(Len(g[r]), adj[2]) IN
       IF c = 0 THEN "IndexError"
       ELSE IF g[r][c].kind = "none" THEN "True"
       ELSE LET f == edge_of(slot_edges(g[r][c], ts), adj[3]) IN
            IF f = NoFace THEN "AttributeError"
            ELSE IF fits(edge_of(tile, adj[3]), f) THEN "True" ELSE "False"

\* try_tile that leaves the loop after the Base and Right neighbours
try_tile_two_edges(tile, g, ts, row, col) ==
  LET adj == adj_spaces(side(g), row, col)
      out == [ i \in 1..2 |-> try_edge(tile, g, ts, adj[i]) ]
  IN  IF out[1] # "True" THEN out[1] ELSE out[2]

\* try_tile( tile, board, row, col )
try_tile(tile, g, ts, row, col) ==
  LET adj == adj_spaces(side(g), row, col)
      out == [ i \in 1..3 |-> try_edge(tile, g, ts, adj[i]) ]
  IN  IF out[1] # "True" THEN out[1]
      ELSE IF out[2] # "True" THEN out[2]
      ELSE out[3]

\* the first slot that is None in the scan of solve, rows then columns,
\* as Python indices; << -1, -1 >> when the scan finds none
first_empty(g) ==
  LET E == EmptySlots(g) IN
  IF E = {} THEN << -1, -1 >>
  ELSE LET rc == CHOOSE a \in E :
                   \A o \in E : a[1] < o[1] \/ (a[1] = o[1] /\ a[2] <= o[2])
       IN  << rc[1] - 1, rc[2] - 1 >>

\* tiles[ :k ] + tiles[ k + 1: ], k counted from 1
without(ts, k) == SubSeq(ts, 1, k - 1) \o SubSeq(ts, k + 1, Len(ts))

\* a frame of solve: its tuple of tiles (positions in the loaded tuple), the
\* slot under trial, and where the two loops stand: tile k, n rotations done
NewFrame(ts) == [ at |-> "enter", tiles |-> ts, row |-> -1, col |-> -1, k |-> 1, n |-> 0 ]

\* the loop counters with for _ in range( 2 )
next_turn_two(f) ==
  IF f.n + 1 < 2 THEN [ f EXCEPT !.n = f.n + 1 ]
  ELSE [ f EXCEPT !.k = f.k + 1, !.n = 0 ]

\* the loop counters when the inner loop starts over on the same tile
next_turn_same_tile(f) ==
  IF f.n + 1 < 3 THEN [ f EXCEPT !.n = f.n + 1 ]
  ELSE [ f EXCEPT !.n = 0 ]

\* the loop counters after one more turn of for _ in range( 3 )
next_turn(f) ==
  IF f.n + 1 < 3 THEN [ f EXCEPT !.n = f.n + 1 ]
  ELSE [ f EXCEPT !.k = f.k + 1, !.n = 0 ]

Top == stack[Len(stack)]
Pop == SubSeq(stack, 1, Len(stack) - 1)

\* the grid as the consumer of the generator sees it at a yield
snapshot(g, ts) ==
  [ r \in 1..Len(g) |->
    [ c \in 1..Len(g[r]) |-> [ g[r][c] EXCEPT !.edges = slot_edges(g[r][c], ts) ] ] ]

----------------------------------------------------------------------------
(* The script: load, validate, build the board, pull solve to exhaustion *)

flip(code) == << code[1], IF lower(code[2]) = "u" THEN "l" ELSE "u" >>

\* the ways a tile of the base puzzle is varied in tiles.yaml
variant(t, v) ==
  IF v = 1 THEN << t[1], t[3], t[2] >>
  ELSE IF v = 2 THEN << flip(t[1]), t[2], t[3] >>
  ELSE IF v = 3 THEN << t[3], t[1], t[2] >>
  ELSE t

BaseBoard ==
  << <<"1","l">>, <<"2","l">>, <<"2","u">>, <<"2","u">>, <<"2","l">>, <<"1","u">> >>

BaseTiles ==
  << << <<"2","l">>, <<"1","l">>, <<"2","u">> >>,
     << <<"2","u">>, <<"2","u">>, <<"2","u">> >>,
     << <<"2","l">>, <<"1","u">>, <<"1","u">> >>,
     << <<"1","u">>, <<"2","l">>, <<"1","l">> >>,
     << <<"2","l">>, <<"2","l">>, <<"1","l">> >>,
     << <<"2","u">>, <<"1","l">>, <<"1","u">> >> >>

Boards ==
  { BaseBoard,
    SubSeq(BaseBoard, 1, 5),
    << >>,
    << <<"1","u">>, <<"1","u">>, <<"2","l">>, <<"2","u">>, <<"3","l">>, <<"3","u">> >> }

Init ==
  /\ boardCodes \in Boards
  /\ \E v \in [ 1..Len(BaseTiles) -> 0..MaxVariant ] : \E cut \in 0..MaxCut :
       tileCodes = [ i \in 1..(Len(BaseTiles) - cut) |-> variant(BaseTiles[i], v[i]) ]
  /\ pc = "load_tiles"
  /\ err = NoError
  /\ board = << >>
  /\ tiles = << >>
  /\ solution = << >>
  /\ stack = << >>
  /\ yielded = << >>
  /\ arg = << >>
  /\ res = NoError

\* solve( init_solution( board ), tiles ), line 237: the generator is
\* created, its body has not run yet
StartSolve ==
  /\ pc = "init"
  /\ solution' = init_solution(board)
  /\ stack' = << NewFrame([ i \in 1..Len(tiles) |-> i ]) >>
  /\ pc' = "solve"
  /\ UNCHANGED << boardCodes, tileCodes, err, board, tiles, yielded, arg, res >>

\* the generator is exhausted when its outermost frame returns
Return ==
  /\ stack' = Pop
  /\ pc' = IF Len(stack) = 1 THEN "done" ELSE pc

\* a frame starts: with tiles left it scans for the first empty slot and
\* enters the loops there, or falls off the end when no slot is empty; with
\* no tiles left it yields the board
SolveEnter ==
  /\ pc = "solve"
  /\ Top.at = "enter"
  /\ IF Len(Top.tiles) > 0
     THEN /\ IF first_empty(solution) # << -1, -1 >>
             THEN /\ stack' = [ stack EXCEPT ![Len(stack)] =
                                  [ @ EXCEPT !.at = "loop",
                                             !.row = first_empty(solution)[1],
                                             !.col = first_empty(solution)[2] ] ]
                  /\ UNCHANGED pc
             ELSE Return
          /\ UNCHANGED yielded
     ELSE /\ stack' = [ stack EXCEPT ![Len(stack)] = [ @ EXCEPT !.at = "yield" ] ]
          /\ yielded' = Append(yielded, snapshot(solution, tiles))
          /\ UNCHANGED pc
  /\ UNCHANGED << boardCodes, tileCodes, err, board, tiles, solution, arg, res >>

\* one turn of the inner loop: rotate the candidate, test it, and on a fit
\* place it and call solve with the tile taken out
SolveTry ==
  /\ pc = "solve"
  /\ Top.at = "loop"
  /\ Top.k <= Len(Top.tiles)
  /\ LET id == Top.tiles[Top.k]
         ts == [ tiles EXCEPT ![id] = rotate(@, 1) ]
         ok == try_tile(ts[id], solution, ts, Top.row, Top.col)
     IN  /\ tiles' = ts
         /\ IF ok = "True"
            THEN /\ solution' = [ solution EXCEPT ![Top.row + 1][Top.col + 1] = TileRef(id) ]
                 /\ stack' = Append([ stack EXCEPT ![Len(stack)] = next_turn(@) ],
                                    NewFrame(without(Top.tiles, Top.k)))
                 /\ UNCHANGED << pc, err >>
            ELSE IF ok = "False"
            THEN /\ stack' = [ stack EXCEPT ![Len(stack)] = next_turn(@) ]
                 /\ UNCHANGED << pc, err, solution >>
            ELSE /\ pc' = "error"
                 /\ err' = Error(ok)
                 /\ UNCHANGED << stack, solution >>
  /\ UNCHANGED << boardCodes, tileCodes, board, yielded, arg, res >>

\* the loops are over: the slot is cleared and the frame returns
SolveBacktrack ==
  /\ pc = "solve"
  /\ Top.at = "loop"
  /\ Top.k > Len(Top.tiles)
  /\ solution' = [ solution EXCEPT ![Top.row + 1][Top.col + 1] = Empty ]
  /\ Return
  /\ UNCHANGED << boardCodes, tileCodes, err, board, tiles, yielded, arg, res >>

\* the consumer asks for the next board: the frame that yielded falls off
\* the end of solve
SolveResume ==
  /\ pc = "solve"
  /\ Top.at = "yield"
  /\ Return
  /\ UNCHANGED << boardCodes, tileCodes, err, board, tiles, solution, yielded, arg, res >>

Next ==
  \/ LoadTiles
  \/ LoadBoard
  \/ CheckGame
  \/ StartSolve
  \/ SolveEnter
  \/ SolveTry
  \/ SolveBacktrack
  \/ SolveResume

Spec == Init /\ [][Next]_vars

\* the puzzles of Init in which at most MaxVaried tiles differ from the base
FairInit ==
  /\ Init
  /\ Cardinality({ i \in 1..Len(tileCodes) : tileCodes[i] # BaseTiles[i] }) <= MaxVaried

\* the caller keeps pulling: the script and the generator always take
\* their next step
FairSpec == FairInit /\ [][Next]_vars /\ WF_vars(Next)

----------------------------------------------------------------------------
(* What the search is to find, stated without the search *)

\* a function over 1..n as a tuple, every element computed once
tuple(f) == << >> \o f

\* two faces are the two halves of one picture
Match(f, g) ==
  /\ f # NoFace
  /\ g # NoFace
  /\ f.figure = g.figure
  /\ f.side # g.side

\* the interior slots of grid g in scan order, as << row, col >> from 1
InteriorSlots(g) ==
  LET E == EmptySlots(g)
      before(a, o) == a[1] < o[1] \/ (a[1] = o[1] /\ a[2] <= o[2])
  IN  tuple([ i \in 1..Cardinality(E) |->
                CHOOSE a \in E : Cardinality({ o \in E : before(o, a) }) = i ])

\* what lies across edge number k of slot rc of grid g of order s: the
\* slot adj_spaces names (<< 0, 0 >> when it is off the grid), its number
\* among the interior slots (0 for a frame slot), and the face a frame
\* slot holds at that edge
AcrossEdge(g, s, inner, rc, k) ==
  LET adj == adj_spaces(s, rc[1] - 1, rc[2] - 1)[k]
      r == IF 0 <= adj[1] /\ adj[1] < Len(g) THEN adj[1] + 1 ELSE 0
      c == IF r # 0 /\ 0 <= adj[2] /\ adj[2] < Len(g[r]) THEN adj[2] + 1 ELSE 0
  IN  IF c = 0 THEN [ slot |-> << 0, 0 >>, j |-> 0, face |-> NoFace ]
      ELSE IF g[r][c].kind = "frame"
      THEN [ slot |-> << r, c >>, j |-> 0, face |-> edge_of(g[r][c].edges, Edge[k]) ]
      ELSE [ slot |-> << r, c >>,
             j |-> CHOOSE j \in 1..Len(inner) : inner[j] = << r, c >>,
             face |-> NoFace ]

\* the puzzle the script was given: the tiles as loaded, the board as
\* built by init_solution, its interior slots and their neighbours
Puzzle ==
  LET g == init_solution(board)
      inner == InteriorSlots(g)
  IN  [ originals |-> load_tiles(tileCodes),
        interior |-> inner,
        across |-> tuple([ i \in 1..Len(inner) |->
                     tuple([ k \in 1..3 |-> AcrossEdge(g, Order, inner, inner[i], k) ]) ]) ]

\* an assignment gives interior slot i a << tile, rotation >> pair a[i];
\* the tile then shows these edges
Shown(P, a, i) == rotate(P.originals[a[i][1]], a[i][2])

\* edge number k of slot i fits the face across it
EdgeFits(P, a, i, k) ==
  LET x == P.across[i][k] IN
  /\ x.slot # << 0, 0 >>
  /\ Match(edge_of(Shown(P, a, i), Edge[k]),
           IF x.j = 0 THEN x.face ELSE edge_of(Shown(P, a, x.j), Edge[k]))

\* the complete valid assignments of puzzle P: every tile on exactly one
\* slot (p is a permutation), every rotation in {0,1,2}, every pair of
\* adjacent faces fits.  For each p the rotations are first narrowed to
\* those that fit the frame around each slot.
ValidAssignmentsOf(P) ==
  LET n == Len(P.interior)
      rots == tuple([ i \in 1..n |-> tuple([ t \in 1..n |->
                { rot \in 0..2 :
                    \A k \in 1..3 :
                      (P.across[i][k].slot # << 0, 0 >> /\ P.across[i][k].j = 0) =>
                        Match(edge_of(rotate(P.originals[t], rot), Edge[k]),
                              P.across[i][k].face) } ]) ])
      upto(p, m) ==
        LET RECURSIVE build(_)
            build(i) ==
              IF i = 0 THEN { << >> }
              ELSE { Append(a, << p[i], rot >>) : a \in build(i - 1), rot \in rots[i][p[i]] }
        IN  build(m)
  IN  IF n # Len(P.originals) \/ n = 0 THEN {}
      ELSE UNION { { a \in upto(p, n) : \A i \in 1..n : \A k \in 1..3 : EdgeFits(P, a, i, k) }
                   : p \in Permutations(1..n) }

ValidAssignments == ValidAssignmentsOf(Puzzle)

\* the interior of a board laid out by assignment a: per slot the tile
\* and the faces it shows
BoardOf(P, a) == [ i \in 1..Len(a) |-> [ id |-> a[i][1], edges |-> Shown(P, a, i) ] ]

\* the interior of a yielded board
InteriorOf(P, y) ==
  [ i \in 1..Len(P.interior) |->
      [ id |-> y[P.interior[i][1]][P.interior[i][2]].id,
        edges |-> y[P.interior[i][1]][P.interior[i][2]].edges ] ]

Yielding == pc = "solve" /\ Len(stack) > 0 /\ Top.at = "yield"

----------------------------------------------------------------------------
(* C1: when solve yields a board, no interior slot is empty and the tile   *)
(* in every interior slot fits, edge by edge, the face at the same-named   *)
(* edge of each of its three neighbours by adj_spaces, frame included.     *)
YieldedBoardsFit ==
  Yielding =>
    LET P == Puzzle IN
    \A i \in 1..Len(P.interior) :
      LET here == solution[P.interior[i][1]][P.interior[i][2]] IN
      /\ here.kind = "tile"
      /\ \A k \in 1..3 :
           /\ P.across[i][k].slot # << 0, 0 >>
           /\ LET there == solution[P.across[i][k].slot[1]][P.across[i][k].slot[2]] IN
              /\ there.kind # "none"
              /\ Match(edge_of(tiles[here.id], Edge[k]),
                       edge_of(slot_edges(there, tiles), Edge[k]))

SecondBoardYielded == Yielding /\ Len(yielded) = 2 /\ Len(tiles) = 6

----------------------------------------------------------------------------
(* C2: pulled to exhaustion, solve has yielded exactly one board per       *)
(* complete valid assignment: as many boards as assignments, every         *)
(* assignment's board as often as there are assignments laying out that    *)
(* board, and no other board.                                              *)
OneBoardPerAssignment ==
  pc = "done" =>
    LET P == Puzzle
        A == ValidAssignmentsOf(P)
        B == { BoardOf(P, a) : a \in A }
        Y == tuple([ k \in 1..Len(yielded) |-> InteriorOf(P, yielded[k]) ])
    IN  /\ Len(yielded) = Cardinality(A)
        /\ \A b \in B :
             Cardinality({ k \in 1..Len(Y) : Y[k] = b })
               = Cardinality({ a \in A : BoardOf(P, a) = b })
        /\ \A k \in 1..Len(Y) : Y[k] \in B

TwoBoardsFound == pc = "done" /\ Len(yielded) = 2 /\ Len(tiles) = 6

----------------------------------------------------------------------------
(* C3: once the search has started, and as long as the caller keeps        *)
(* pulling, solve finishes.                                                *)
SolveTerminates == (pc = "solve") ~> (pc = "done")

SearchFinished == pc = "done" /\ Len(yielded) = 3 /\ stack = << >>

----------------------------------------------------------------------------
(* C4: a puzzle with no complete valid assignment never brings the search  *)
(* to an exception and never makes it yield; it ends with no board         *)
(* yielded and no error.                                                   *)
UnsolvableIsNoError ==
  /\ pc = "error" => ValidAssignments # {}
  /\ Yielding => ValidAssignments # {}
  /\ (pc = "done" /\ ValidAssignments = {}) => (yielded = << >> /\ err = NoError)

UnsolvableFinished ==
  /\ pc = "done"
  /\ Order = 1
  /\ Len(tiles) = 6
  /\ yielded = << >>
  /\ ValidAssignments = {}

----------------------------------------------------------------------------
(* Tile.rotate called up to MaxCalls times on one Tile, each time with a   *)
(* count between -MaxRot and MaxRot                                        *)

RotTiles ==
  { << << <<"1","u">>, <<"2","l">>, <<"3","u">> >> >>,
    << << <<"4","l">>, <<"4","u">>, <<"5","L">> >> >>,
    << << <<"6","u">>, <<"6","u">>, <<"6","u">> >> >> }

RotInit ==
  /\ tileCodes \in RotTiles
  /\ tiles = load_tiles(tileCodes)
  /\ arg = << >>
  /\ pc = "rotate"
  /\ boardCodes = << >>
  /\ err = NoError
  /\ board = << >>
  /\ solution = << >>
  /\ stack = << >>
  /\ yielded = << >>
  /\ res = NoError

\* tile.rotate( n ): the Tile is changed in place; arg keeps the counts
RotCall ==
  /\ pc = "rotate"
  /\ Len(arg) < MaxCalls
  /\ \E n \in (-MaxRot)..MaxRot :
       /\ tiles' = [ tiles EXCEPT ![1] = rotate(@, n) ]
       /\ arg' = Append(arg, n)
  /\ UNCHANGED << boardCodes, tileCodes, pc, err, board, solution, stack, yielded, res >>

RotNext == RotCall

SpecRot == RotInit /\ [][RotNext]_vars

\* the faces of a tile after k turns of 120 degrees, each moving
\* the Left face to Base, Base to Right and Right to Left
Turned(t, k) ==
  IF k = 0 THEN t
  ELSE IF k = 1 THEN [ b |-> t.l, r |-> t.b, l |-> t.r ]
  ELSE [ b |-> t.r, r |-> t.l, l |-> t.b ]

RECURSIVE SumSeq(_)
SumSeq(q) == IF q = << >> THEN 0 ELSE q[1] + SumSeq(Tail(q))

\* the least non-negative residue of n modulo 3
Residue3(n) == CHOOSE k \in 0..2 : \E m \in (-(MaxRot * MaxCalls + 1))..(MaxRot * MaxCalls + 1) : n = 3 * m + k

(* C11: rotation is a cyclic group of order 3: after any calls rotate(n1),  *)
(* rotate(n2), ... the tile stands as after (n1 + n2 + ...) mod 3 single    *)
(* turns, a single turn moving Left to Base, Base to Right and Right to     *)
(* Left; so rotate(3) and rotate(0) change nothing, rotate(2) undoes        *)
(* rotate(1), and rotate(n) equals n mod 3 single turns.                    *)
RotationGroupOfOrder3 ==
  pc = "rotate" =>
    LET t0 == load_tiles(tileCodes)[1] IN
    /\ tiles[1] = Turned(t0, Residue3(SumSeq(arg)))
    /\ (arg \in { << 3 >>, << 0 >>, << -3 >>, << 1, 2 >>, << 2, 1 >>, << 1, -1 >> })
         => tiles[1] = t0
    /\ Len(arg) = 1 => tiles[1] = Turned(t0, Residue3(arg[1]))

RotatedBack == pc = "rotate" /\ arg = << 1, 2 >> /\ tileCodes[1][1] = <<"1","u">>

----------------------------------------------------------------------------
(* C12: rotation is pure: while solve runs, a turn given to a candidate     *)
(* changes neither the faces of a tile of the remaining tuple (the          *)
(* candidate itself included) nor the faces shown by a tile that stays in   *)
(* its board slot.  The code rotates the Tile object in place, and the      *)
(* slot holds that same object.                                             *)
RotationIsPure ==
  [][ pc = "solve" =>
        /\ \A k \in 1..Len(Top.tiles) : tiles'[Top.tiles[k]] = tiles[Top.tiles[k]]
        /\ \A rc \in Slots(solution) :
             LET slot == solution[rc[1]][rc[2]] IN
             (slot.kind = "tile" /\ solution'[rc[1]][rc[2]] = slot)
               => tiles'[slot.id] = tiles[slot.id] ]_vars

----------------------------------------------------------------------------
(* The neighbours adj_spaces names on the boards init_solution builds *)

\* adj_spaces for a slot given by its position counted from 1, with the
\* order try_tile passes, side( board ) of the grid
AdjOf(g, rc) == adj_spaces(side(g), rc[1] - 1, rc[2] - 1)

\* a Python << row, col >> is a position of the grid without wrapping
OnBoard(g, row, col) ==
  /\ 0 <= row /\ row < Len(g)
  /\ 0 <= col /\ col < Len(g[row + 1])

\* the slot at a Python << row, col >> of the grid
SlotAt(g, row, col) == g[row + 1][col + 1]

(* C13: for every order s >= 1 and every interior slot of the board built   *)
(* for s, adj_spaces yields three neighbours, for Base, Right and Left in   *)
(* that order, each with 0 <= row' < number of rows and                     *)
(* 0 <= col' < length of row'.                                              *)
NeighboursOnBoard ==
  (pc = "g_adj" /\ Order >= 1) =>
    /\ Len(res) = 3
    /\ << res[1][3], res[2][3], res[3][3] >> = Edge
    /\ \A k \in 1..3 : OnBoard(solution, res[k][1], res[k][2])

NeighboursComputed ==
  /\ pc = "g_adj"
  /\ Order = 3
  /\ arg[1] = 2 * Order + 1
  /\ res[1][1] = 2 * Order

----------------------------------------------------------------------------
\* the interior slots and edges whose neighbour is the slot at position fc
AnchoredAt(g, fc) ==
  { ak \in EmptySlots(g) \X (1..3) :
      /\ AdjOf(g, ak[1])[ak[2]][1] = fc[1] - 1
      /\ AdjOf(g, ak[1])[ak[2]][2] = fc[2] - 1 }

\* the position at which the claim places the face of the frame slot fc:
\* top and bottom rows Base, upper-right and lower-left Left, lower-right
\* and upper-left Right
ClaimedAnchor(g, s, fc) ==
  IF fc[1] = 1 \/ fc[1] = Len(g) THEN "b"
  ELSE IF fc[1] - 1 < 2 * s
       THEN (IF fc[2] = Len(g[fc[1]]) THEN "l" ELSE "r")
       ELSE (IF fc[2] = Len(g[fc[1]]) THEN "r" ELSE "l")

(* C14: wherever the neighbour of an interior slot across edge e is a frame *)
(* slot, that frame slot holds its boundary face at position e; the frame   *)
(* slots hold their face where the claim lists it; and every frame slot is  *)
(* the neighbour of exactly one interior slot, across one edge.             *)
FrameAnchorsFaceInward ==
  /\ (pc = "g_adj" /\ Order >= 1) =>
       \A k \in 1..3 :
         /\ OnBoard(solution, res[k][1], res[k][2])
         /\ SlotAt(solution, res[k][1], res[k][2]).kind = "frame" =>
              edge_of(SlotAt(solution, res[k][1], res[k][2]).edges, res[k][3]) # NoFace
  /\ (Built /\ Order >= 1) =>
       \A fc \in FrameSlots(solution) :
         /\ EdgesHeld(solution[fc[1]][fc[2]]) = { ClaimedAnchor(solution, Order, fc) }
         /\ Cardinality(AnchoredAt(solution, fc)) = 1
         /\ Cardinality({ ak[1] : ak \in AnchoredAt(solution, fc) }) = 1

FrameAnchored ==
  /\ pc = "g_adj"
  /\ Order = 2
  /\ \E k \in 1..3 :
       /\ SlotAt(solution, res[k][1], res[k][2]).kind = "frame"
       /\ EdgesHeld(SlotAt(solution, res[k][1], res[k][2])) = { "r" }

----------------------------------------------------------------------------
(* C15: adjacency is symmetric: for interior slots A and B of the board of  *)
(* any order, B is A's neighbour across edge e exactly when A is B's        *)
(* neighbour across the same edge e.  A is the slot adj_spaces was called   *)
(* for, B ranges over the interior slots.                                   *)
AdjacencySymmetric ==
  (pc = "g_adj" /\ Order >= 1) =>
    \A b \in EmptySlots(solution) : \A k \in 1..3 :
      (res[k] = << b[1] - 1, b[2] - 1, Edge[k] >>)
        <=> (AdjOf(solution, b)[k] = << arg[1], arg[2], Edge[k] >>)

\* a pair of interior neighbours across the waist, rows 2s and 2s + 1
WaistNeighbours ==
  /\ pc = "g_adj"
  /\ Order = 2
  /\ arg[1] = 2 * Order
  /\ \E k \in 1..3 :
       /\ res[k][1] = 2 * Order + 1
       /\ SlotAt(solution, res[k][1], res[k][2]).kind = "none"

----------------------------------------------------------------------------
\* the slots that hold a tile of the tile tuple
FilledSlots(g) == { rc \in Slots(g) : g[rc[1]][rc[2]].kind = "tile" }

\* a call of solve is at its first line
Entering == pc = "solve" /\ Len(stack) > 0 /\ Top.at = "enter"

(* C16: each time solve is entered, at the top level and in every           *)
(* recursive call, the tile in every filled interior slot fits, across      *)
(* each of its three edges, the face of every neighbour that is a frame     *)
(* slot or a filled interior slot.                                          *)
PartialBoardConsistent ==
  Entering =>
    \A rc \in FilledSlots(solution) : \A k \in 1..3 :
      LET adj == AdjOf(solution, rc)[k] IN
      /\ OnBoard(solution, adj[1], adj[2])
      /\ LET there == solution[adj[1] + 1][adj[2] + 1] IN
         there.kind # "none" =>
           Match(edge_of(tiles[solution[rc[1]][rc[2]].id], Edge[k]),
                 edge_of(slot_edges(there, tiles), Edge[k]))

ThreeTilesLaid == Entering /\ Cardinality(FilledSlots(solution)) = 3

----------------------------------------------------------------------------
\* solve is about to rotate and test its next candidate
Testing == pc = "solve" /\ Len(stack) > 0 /\ Top.at = "loop" /\ Top.k <= Len(Top.tiles)

(* C17: each time a candidate is about to be tested, the slot under trial   *)
(* is empty, and the filled interior slots and the remaining tiles add up   *)
(* to the number of tiles.  The code clears the slot only once, after both  *)
(* loops (line 210), so after a recursive call returns the candidate        *)
(* placed last is still in the slot.                                        *)
SlotClearedBeforeNextAttempt ==
  Testing =>
    /\ solution[Top.row + 1][Top.col + 1].kind = "none"
    /\ Cardinality(FilledSlots(solution)) + Len(Top.tiles) = Len(tiles)

----------------------------------------------------------------------------
(* C18: once solve has been pulled to exhaustion, every interior slot is    *)
(* empty again, every frame slot holds the face it held before the search,  *)
(* and every tile shows its three faces at the positions it had when        *)
(* loaded.                                                                  *)
SearchRestoresInputs ==
  pc = "done" =>
    /\ \A rc \in EmptySlots(init_solution(board)) : solution[rc[1]][rc[2]] = Empty
    /\ \A rc \in FrameSlots(init_solution(board)) :
         solution[rc[1]][rc[2]] = init_solution(board)[rc[1]][rc[2]]
    /\ Slots(solution) = Slots(init_solution(board))
    /\ tiles = load_tiles(tileCodes)
    /\ board = load_board(boardCodes)

ExhaustedAfterBoards ==
  /\ pc = "done"
  /\ Len(yielded) >= 7
  /\ \E i \in 1..Len(tiles) : rotate(tiles[i], 1) # tiles[i]

----------------------------------------------------------------------------
\* how many boundary faces and tile faces show figure fig with side sd
FaceCount(fig, sd) ==
  Cardinality({ i \in 1..Len(board) : board[i] = [ figure |-> fig, side |-> sd ] })
  + Cardinality({ ie \in (1..Len(tiles)) \X { "b", "r", "l" } :
                    edge_of(tiles[ie[1]], ie[2]) = [ figure |-> fig, side |-> sd ] })

(* C19: a puzzle that has a complete valid assignment has, for every        *)
(* figure 1..6, as many upper as lower faces over the boundary and the      *)
(* tiles, and check_game does not raise the parity error on it.             *)
ParityAcceptsSolvable ==
  (pc = "check_game" /\ ValidAssignments # {}) =>
    /\ \A fig \in 1..6 : FaceCount(fig, "u") = FaceCount(fig, "l")
    /\ check_game(board, tiles).kind # "ParityMismatch"

SolvableVariantLoaded ==
  /\ pc = "check_game"
  /\ tileCodes # BaseTiles
  /\ ValidAssignments # {}

====
